---- MODULE Spec2Model ----
(***************************************************************************)
(* Model of app/speech.py: the POST /api/speech/analyze handler and the    *)
(* rms_flags helper it calls.                                              *)
(*                                                                         *)
(* Numbers.  Sample amplitudes are integers in units of the 1e-12 floor    *)
(* of rms_flags (so the floor itself is Eps = 1).  A frame's RMS energy    *)
(* sqrt(mean(x^2)) is irrational in general, so a frame's energy is kept   *)
(* as the exact integer SumSq = frame_len * rms^2 and every comparison the *)
(* code makes on rms values (sorting for the median, rms > thr) is made    *)
(* exactly on those integers.  Arithmetic is that of the reals: float32    *)
(* rounding inside numpy is not modelled.                                  *)
(***************************************************************************)
EXTENDS Integers, Sequences, FiniteSets, TLC

VARIABLES pc, upload, tmpExists, bound, y, sr, flags, pauses, returned, outcome

vars == <<pc, upload, tmpExists, bound, y, sr, flags, pauses, returned, outcome>>

---------------------------------------------------------------------------
(* Bounds of the model *)

\* longest mono clip, in samples, drawn sample by sample
MaxSamples == 5
\* longest two-channel clip, in rows
MaxStereo == 2
\* most runs (alternating silence / speech) of a clip drawn run by run
MaxRuns == 5

\* sample amplitudes, in units of 1e-12
Amps == {-4, 0, 1, 2}
\* sample rates (Hz); 30 ms of them is 1.02, 1.5, 2.7 and 3 samples
SampleRates == {34, 50, 90, 100}
\* frame durations (ms) rms_flags is applied with, besides the handler's own
FrameDurations == {10, 20, 30, 45}

---------------------------------------------------------------------------
(* Program constants *)

\* frame_ms passed by analyze, and the factor of run * 30 and len(flags) * 30
FrameMs == 30
\* thresh_scale = 0.6 = ScaleNum / ScaleDen
ScaleNum == 3
ScaleDen == 5
\* the floor 1e-12 of the threshold, in amplitude units
Eps == 1
\* p > 700 counts a pause as long
LongPauseMs == 700

---------------------------------------------------------------------------
(* Arithmetic helpers *)

Max(a, b) == IF a >= b THEN a ELSE b

RECURSIVE SumSeq(_)
SumSeq(s) == IF s = <<>> THEN 0 ELSE Head(s) + SumSeq(Tail(s))

\* sqrt(a) + sqrt(b) < sqrt(c), for naturals a, b, c
SqrtSumBelow(a, b, c) == c - a - b > 0 /\ 4 * a * b < (c - a - b) * (c - a - b)

\* sqrt(a) + sqrt(b) > sqrt(c), for naturals a, b, c
SqrtSumAbove(a, b, c) == c - a - b < 0 \/ 4 * a * b > (c - a - b) * (c - a - b)

\* Python's round() of the exact quotient num / den (ties to even)
RoundHalfEven(num, den) ==
    LET q == num \div den
        r == num % den
    IN  IF 2 * r < den THEN q
        ELSE IF 2 * r > den THEN q + 1
        ELSE IF q % 2 = 0 THEN q ELSE q + 1

---------------------------------------------------------------------------
(* rms_flags *)

\* frame_len = max(1, int(sr * frame_ms / 1000)); int() truncates
frame_len_rounded(rate, frame_ms) == Max(1, RoundHalfEven(rate * frame_ms, 1000))

frame_len_per_ms(rate, frame_ms) == Max(1, rate \div 1000)

frame_len(rate, frame_ms) == Max(1, (rate * frame_ms) \div 1000)

\* n_frames = len(y) // frame_len
n_frames(samples, len) == Len(samples) \div len

\* frame i of y[: n_frames * frame_len].reshape(n_frames, frame_len):
\* the sum of its squared samples (= frame_len * rms[i]^2)
SumSq(samples, i, len) ==
    SumSeq([k \in 1..len |-> samples[(i - 1) * len + k] * samples[(i - 1) * len + k]])

\* rms = np.sqrt(np.mean(frames ** 2, axis=1)), kept as SumSq per frame
rms(samples, n, len) == [i \in 1..n |-> SumSq(samples, i, len)]

\* np.median: the two middle elements of the sorted energies (the same
\* element twice when their number is odd); the median is their mean
MedianPairUpper(e) ==
    LET s == SortSeq(e, LAMBDA a, b : a < b)
    IN  <<s[Len(e)], s[Len(e)]>>

MedianPair(e) ==
    LET s == SortSeq(e, LAMBDA a, b : a < b)
        n == Len(e)
    IN  <<s[(n + 1) \div 2], s[(n \div 2) + 1]>>

\* rms[i] > median * thresh_scale, with median = (sqrt(m[1]/len) + sqrt(m[2]/len)) / 2
AboveUnscaledMedian(e, m, num, den) ==
    SqrtSumBelow(m[1], m[2], 4 * e)

AboveScaledMedian(e, m, num, den) ==
    SqrtSumBelow(num * num * m[1], num * num * m[2], 4 * den * den * e)

\* rms[i] > thr, thr = max(1e-12, float(np.median(rms) * thresh_scale))
AboveThr(e, m, len, num, den) ==
    /\ e > Eps * Eps * len
    /\ AboveScaledMedian(e, m, num, den)

rms_flags(samples, rate, frame_ms, num, den) ==
    LET len == frame_len(rate, frame_ms)
        n   == n_frames(samples, len)
    IN  IF n = 0 THEN <<>>
        ELSE LET e == rms(samples, n, len)
                 m == MedianPair(e)
             IN  [i \in 1..n |-> AboveThr(e[i], m, len, num, den)]

---------------------------------------------------------------------------
(* analyze: the scan that collects the silence segments *)

\* the loop state is st = [i, run, pauses]; one iteration of
\* "for i in range(1, len(flags))", with flags indexed from 1 as in TLA+
ScanStepNoReset(fl, st) ==
    [i      |-> st.i + 1,
     run    |-> st.run + 1,
     pauses |-> IF fl[st.i] # fl[st.i - 1] /\ ~fl[st.i - 1]
                THEN Append(st.pauses, st.run * FrameMs) ELSE st.pauses]

ScanStep(fl, st) ==
    [i      |-> st.i + 1,
     run    |-> IF fl[st.i] = fl[st.i - 1] THEN st.run + 1 ELSE 1,
     pauses |-> IF fl[st.i] # fl[st.i - 1] /\ ~fl[st.i - 1]
                THEN Append(st.pauses, st.run * FrameMs) ELSE st.pauses]

RECURSIVE ScanLoop(_, _)
ScanLoop(fl, st) ==
    IF st.i > Len(fl) THEN st ELSE ScanLoop(fl, ScanStep(fl, st))

\* "if not flags[-1]: pauses.append(run * 30)"
TailPauseDropped(fl, st) == st.pauses

TailPause(fl, st) ==
    IF ~fl[Len(fl)] THEN Append(st.pauses, st.run * FrameMs) ELSE st.pauses

\* "pauses = []; if flags: run = 1; for ...; if not flags[-1]: ..."
collect_pauses(fl) ==
    IF fl = <<>> THEN <<>>
    ELSE TailPause(fl, ScanLoop(fl, [i |-> 2, run |-> 1, pauses |-> <<>>]))

---------------------------------------------------------------------------
(* analyze: the metrics *)

\* int(float(np.mean(pauses)) if pauses else 0.0)
mean_pause_ms(p) == IF p = <<>> THEN 0 ELSE SumSeq(p) \div Len(p)

\* sum(p > 700 for p in pauses)
CountLong(p) == Cardinality({k \in DOMAIN p : p[k] > LongPauseMs})

\* int(100 * sum(p > 700 for p in pauses) / max(1, len(pauses)))
long_pause_pct_rounded(p) == RoundHalfEven(100 * CountLong(p), Max(1, Len(p)))

long_pause_pct_unguarded(p) == (100 * CountLong(p)) \div Max(1, Len(p) - 1)

long_pause_pct(p) == (100 * CountLong(p)) \div Max(1, Len(p))

\* round(60000.0 * len(pauses) / max(1, total_ms) if total_ms else 0.0, 1),
\* in tenths; a tie of this quotient is a dyadic number, which the float
\* holds exactly, so round() sends it to the even tenth
pause_density_per_min(p, total_ms) ==
    IF total_ms # 0 THEN RoundHalfEven(600000 * Len(p), Max(1, total_ms)) ELSE 0

\* the total_ms (multiples of 30) below 6000 that end in 50 and whose double
\* total_ms / 1000.0 lies below the decimal tie, so that round(., 1) goes down
DurationRoundsDown ==
    {150, 1650, 1950, 2250, 2550, 3150, 4050, 4350, 5250, 5550, 5850}

\* round(total_ms / 1000.0, 1), in tenths
duration_s(total_ms) ==
    IF total_ms % 100 = 50
    THEN (total_ms \div 100) + (IF total_ms \in DurationRoundsDown THEN 0 ELSE 1)
    ELSE RoundHalfEven(total_ms, 100)

\* the dict analyze returns
Result(fl, p) ==
    LET total_ms == Len(fl) * FrameMs
    IN  [duration_s            |-> duration_s(total_ms),
         pause_density_per_min |-> pause_density_per_min(p, total_ms),
         mean_pause_ms         |-> mean_pause_ms(p),
         long_pause_pct        |-> long_pause_pct(p),
         fluency_hint          |-> "Aim for shorter and more even pauses; practice with 1-2 short sentences and gradually extend.",
         disclaimer            |-> "For educational purposes only, not for medical diagnosis."]

---------------------------------------------------------------------------
(* Uploads *)

\* shortest run of frames that makes a long pause (720 ms)
LongRun == (LongPauseMs \div FrameMs) + 1

RunLens == {1, LongRun - 1, LongRun}

RECURSIVE Expand(_, _)
Expand(r, speech) ==
    IF r = <<>> THEN <<>>
    ELSE [k \in 1..Head(r) |-> IF speech THEN 2 ELSE 0] \o Expand(Tail(r), ~speech)

SeqsUpTo(S, n) == UNION {[1..k -> S] : k \in 0..n}

\* mono clips drawn sample by sample
MonoClips == SeqsUpTo(Amps, MaxSamples)
\* two-channel clips: rows <<left, right>>
StereoClips == SeqsUpTo(Amps \X Amps, MaxStereo)
\* mono clips of one sample per frame drawn run by run
RunClips == {Expand(r, s) : r \in SeqsUpTo(RunLens, MaxRuns), s \in BOOLEAN}

\* what the client sent: bytes that soundfile decodes to `rows` at rate `sr`
\* with `channels` channels, or bytes it cannot decode
Garbage == [decodable |-> FALSE, sr |-> 0, channels |-> 0, rows |-> <<>>]

Uploads ==
         [decodable : {TRUE}, sr : SampleRates, channels : {1}, rows : MonoClips]
    \cup [decodable : {TRUE}, sr : SampleRates, channels : {2}, rows : StereoClips]
    \cup [decodable : {TRUE}, sr : {34}, channels : {1}, rows : RunClips]
    \cup {Garbage}

---------------------------------------------------------------------------
(* analyze *)

Init ==
    /\ pc = "create"
    /\ upload \in Uploads
    /\ tmpExists = FALSE
    /\ bound = {}
    /\ y = <<>>
    /\ sr = 0
    /\ flags = <<>>
    /\ pauses = <<>>
    /\ returned = <<>>
    /\ outcome = "pending"

\* an exception leaves analyze outside the try block: nothing removes the file
Raise(err) ==
    /\ pc' = "done"
    /\ outcome' = err
    /\ UNCHANGED <<upload, tmpExists, bound, y, sr, flags, pauses, returned>>

\* an exception or a return inside the try block: control goes to finally
Leave(how) ==
    /\ pc' = "finally"
    /\ outcome' = how

\* tempfile.NamedTemporaryFile(delete=False, suffix=suffix) creates the file
CreateTemp ==
    /\ pc = "create"
    /\ pc' = "receive"
    /\ tmpExists' = TRUE
    /\ bound' = bound \cup {"tmp"}
    /\ UNCHANGED <<upload, y, sr, flags, pauses, returned, outcome>>

\* await file.read() returns the uploaded bytes
Receive ==
    /\ pc = "receive"
    /\ pc' = "write"
    /\ UNCHANGED <<upload, tmpExists, bound, y, sr, flags, pauses, returned, outcome>>

\* await file.read() raises; the with block closes tmp, which delete=False keeps
ReceiveFails ==
    /\ pc = "receive"
    /\ Raise("ReceiveError")

\* tmp.write(...) succeeds; path = tmp.name; the with block closes tmp
WriteTemp ==
    /\ pc = "write"
    /\ pc' = "decode"
    /\ bound' = bound \cup {"path"}
    /\ UNCHANGED <<upload, tmpExists, y, sr, flags, pauses, returned, outcome>>

\* tmp.write(...) raises (disk full); the with block closes tmp
WriteFails ==
    /\ pc = "write"
    /\ Raise("WriteError")

\* y, sr = sf.read(path, dtype="float32", always_2d=False)
Decode ==
    /\ pc = "decode"
    /\ upload.decodable
    /\ pc' = "check"
    /\ y' = upload.rows
    /\ sr' = upload.sr
    /\ bound' = bound \cup {"y", "sr"}
    /\ UNCHANGED <<upload, tmpExists, flags, pauses, returned, outcome>>

\* sf.read raises on bytes it cannot decode
DecodeFails ==
    /\ pc = "decode"
    /\ ~upload.decodable
    /\ Leave("DecodeError")
    /\ UNCHANGED <<upload, tmpExists, bound, y, sr, flags, pauses, returned>>

\* "y is None or len(y) == 0"
IsEmptyNever(samples) == FALSE

IsEmpty(samples) == Len(samples) = 0

\* raise HTTPException(400, "Empty audio")
RejectEmpty ==
    /\ pc = "check"
    /\ IsEmpty(y)
    /\ Leave("HTTP400")
    /\ UNCHANGED <<upload, tmpExists, bound, y, sr, flags, pauses, returned>>

\* "if y.ndim > 1: y = y[:, 0]"
Mono(samples, channels) ==
    IF channels > 1 THEN [i \in DOMAIN samples |-> samples[i][1]] ELSE samples

TakeMono ==
    /\ pc = "check"
    /\ ~IsEmpty(y)
    /\ pc' = "compute"
    /\ y' = Mono(y, upload.channels)
    /\ UNCHANGED <<upload, tmpExists, bound, sr, flags, pauses, returned, outcome>>

\* steps 3) to the return statement
Compute ==
    /\ pc = "compute"
    /\ flags' = rms_flags(y, sr, FrameMs, ScaleNum, ScaleDen)
    /\ pauses' = collect_pauses(flags')
    /\ returned' = <<Result(flags', pauses')>>
    /\ bound' = bound \cup {"flags", "total_ms", "pauses", "mean_pause",
                            "long_pause_pct", "pause_density"}
    /\ Leave("OK")
    /\ UNCHANGED <<upload, tmpExists, y, sr>>

\* finally: os.remove(path) succeeds; the pending return or exception goes on
Remove ==
    /\ pc = "finally"
    /\ pc' = "done"
    /\ tmpExists' = FALSE
    /\ UNCHANGED <<upload, bound, y, sr, flags, pauses, returned, outcome>>

\* finally: os.remove(path) raises, and "except: pass" swallows it
RemoveFails ==
    /\ pc = "finally"
    /\ pc' = "done"
    /\ UNCHANGED <<upload, tmpExists, bound, y, sr, flags, pauses, returned, outcome>>

Next ==
    \/ CreateTemp
    \/ Receive
    \/ ReceiveFails
    \/ WriteTemp
    \/ WriteFails
    \/ Decode
    \/ DecodeFails
    \/ RejectEmpty
    \/ TakeMono
    \/ Compute
    \/ Remove
    \/ RemoveFails

Spec == Init /\ [][Next]_vars

---------------------------------------------------------------------------
(* What the properties below speak about *)

\* step 3 of analyze has run: flags, pauses and the result are those of y
Computed == "flags" \in bound

\* analyze has left the try block, or returned
Left == pc \in {"finally", "done"}

Range(s) == {s[i] : i \in DOMAIN s}

\* len is the whole part of rate * ms / 1000, or 1 when that is 0
IsFrameLength(len, rate, ms) ==
    \/ len >= 1 /\ len * 1000 <= rate * ms /\ rate * ms < (len + 1) * 1000
    \/ len = 1 /\ rate * ms < 1000

\* n frames of len samples fit in count samples, and n + 1 do not
IsFrameCount(n, count, len) == n * len <= count /\ count < (n + 1) * len

\* the energies of the frames of the clip in y
Energies == rms(y, Len(flags), frame_len(sr, FrameMs))

\* the k-th smallest element of e, by rank
Ranked(e, k) ==
    CHOOSE v \in Range(e) :
        /\ Cardinality({i \in DOMAIN e : e[i] < v}) < k
        /\ Cardinality({i \in DOMAIN e : e[i] <= v}) >= k

\* the median of the frame energies exceeds the floor 1e-12
MedianAboveFloor(e, len) ==
    SqrtSumAbove(Ranked(e, (Len(e) + 1) \div 2), Ranked(e, (Len(e) \div 2) + 1),
                 4 * Eps * Eps * len)

Silent(fl) == {i \in DOMAIN fl : ~fl[i]}

\* the first frames of the maximal runs of silence
RunStarts(fl) == {i \in Silent(fl) : i = 1 \/ fl[i - 1]}

\* the last frame of the maximal run of silence that starts at frame s
RunEnd(fl, s) ==
    CHOOSE e \in s..Len(fl) :
        /\ e = Len(fl) \/ fl[e + 1]
        /\ \A k \in s..e : ~fl[k]

---------------------------------------------------------------------------
(* Properties *)

\* C1 as stated: the frame length is max(1, round(sr * frame_ms / 1000)) and
\* rms_flags returns floor(sample_count / frame_length) flags, for the
\* handler's frame duration and for every other one.
C1_RoundedFrameLength ==
    Computed =>
        /\ Len(flags) = Len(y) \div Max(1, RoundHalfEven(sr * FrameMs, 1000))
        /\ \A ms \in FrameDurations :
              Len(rms_flags(y, sr, ms, ScaleNum, ScaleDen))
                  = Len(y) \div Max(1, RoundHalfEven(sr * ms, 1000))

\* C1 amended: the frame length is max(1, floor(sr * frame_ms / 1000)), the
\* quotient truncated and not rounded, and rms_flags returns exactly
\* floor(sample_count / frame_length) flags: the tail remainder is dropped,
\* never padded.
C1_TruncatedFrameLength ==
    Computed =>
        /\ \E len \in 1..((sr * FrameMs) \div 1000 + 1) :
              /\ IsFrameLength(len, sr, FrameMs)
              /\ IsFrameCount(Len(flags), Len(y), len)
        /\ \A ms \in FrameDurations :
              \E len \in 1..((sr * ms) \div 1000 + 1) :
                  /\ IsFrameLength(len, sr, ms)
                  /\ IsFrameCount(Len(rms_flags(y, sr, ms, ScaleNum, ScaleDen)), Len(y), len)

\* a clip whose 30 ms is 1.5 or 2.7 samples, with a remainder dropped
C1_Witness ==
    /\ Computed
    /\ (sr * FrameMs) % 1000 >= 500
    /\ Len(flags) >= 1
    /\ Len(y) > Len(flags) * frame_len(sr, FrameMs)

\* C2 as stated: long_pause_pct is the percentage of pauses above 700 ms
\* rounded to the nearest integer, 0 when there are no pauses.
C2_RoundedPct ==
    returned # <<>> =>
        returned[1].long_pause_pct
            = RoundHalfEven(100 * Cardinality({k \in DOMAIN pauses : pauses[k] > LongPauseMs}),
                            Max(1, Len(pauses)))

\* C2 amended: long_pause_pct is the percentage of pauses above 700 ms with
\* its fraction cut off (the largest integer not above it), 0 when there are
\* no pauses.
C2_TruncatedPct ==
    returned # <<>> =>
        LET q == returned[1].long_pause_pct
            c == Cardinality({k \in DOMAIN pauses : pauses[k] > LongPauseMs})
            n == Len(pauses)
        IN  IF n = 0 THEN q = 0
            ELSE q * n <= 100 * c /\ 100 * c < (q + 1) * n

\* two long pauses out of three: 66.67 per cent
C2_Witness ==
    /\ returned # <<>>
    /\ Len(pauses) = 3
    /\ Cardinality({k \in DOMAIN pauses : pauses[k] > LongPauseMs}) = 2
    /\ returned[1].long_pause_pct = 66

\* C3: whenever analyze has returned or raised, the temporary file it
\* created is gone.
C3_TempFileReleased == pc = "done" => ~tmpExists

\* C4: an empty decoded clip is rejected with HTTP 400 before flags, pauses
\* or metrics are computed, and nothing is returned.
C4_EmptyRejected ==
    ("y" \in bound /\ y = <<>>) =>
        /\ returned = <<>>
        /\ bound \subseteq {"tmp", "path", "y", "sr"}
        /\ flags = <<>> /\ pauses = <<>>
        /\ Left => outcome = "HTTP400"

C4_Witness ==
    /\ pc = "done"
    /\ "y" \in bound /\ y = <<>>
    /\ outcome = "HTTP400"

\* C5: a non-empty clip shorter than one frame is no error: no frame, no
\* pause, and a result whose four numbers are 0.
C5_ShortClip ==
    (Left /\ "y" \in bound /\ Len(y) > 0 /\ (Len(y) + 1) * 1000 <= sr * FrameMs) =>
        /\ outcome = "OK"
        /\ flags = <<>>
        /\ pauses = <<>>
        /\ Len(returned) = 1
        /\ returned[1].duration_s = 0
        /\ returned[1].pause_density_per_min = 0
        /\ returned[1].mean_pause_ms = 0
        /\ returned[1].long_pause_pct = 0

C5_Witness ==
    /\ pc = "done"
    /\ "y" \in bound /\ Len(y) > 0 /\ (Len(y) + 1) * 1000 <= sr * FrameMs
    /\ outcome = "OK"

\* C6: the pauses add up to at most the clip, frame_count * 30 ms; they add
\* up to 30 ms per silence frame, so no silence frame is counted twice and
\* no speech frame is counted.
C6_PausesWithinClip ==
    Computed =>
        /\ SumSeq(pauses) <= Len(flags) * FrameMs
        /\ SumSeq(pauses) = Cardinality(Silent(flags)) * FrameMs

\* several pauses with speech between them
C6_Witness ==
    /\ Computed
    /\ Len(pauses) >= 2
    /\ \E i \in DOMAIN flags : flags[i]

\* C7: long_pause_pct of every result is an integer from 0 to 100.
C7_PctInRange ==
    returned # <<>> => returned[1].long_pause_pct \in 0..100

\* a result strictly inside the range
C7_Witness ==
    /\ returned # <<>>
    /\ returned[1].long_pause_pct = 50

\* C8 as stated: when every frame has the same energy, no frame is silence,
\* there is no pause and the pause density is 0.
C8_UniformIsSpeech ==
    (Computed /\ Len(flags) >= 1 /\ Cardinality(Range(Energies)) = 1) =>
        /\ \A i \in DOMAIN flags : flags[i]
        /\ pauses = <<>>
        /\ returned[1].pause_density_per_min = 0

\* C8 amended: when every frame has the same energy and that energy is
\* above the floor 1e-12, no frame is silence, there is no pause and the
\* pause density is 0; when it is at or below the floor every frame is
\* silence and the whole clip is one pause.
C8_UniformAboveFloor ==
    (Computed /\ Len(flags) >= 1 /\ Cardinality(Range(Energies)) = 1) =>
        IF Energies[1] > Eps * Eps * frame_len(sr, FrameMs)
        THEN /\ \A i \in DOMAIN flags : flags[i]
             /\ pauses = <<>>
             /\ returned[1].pause_density_per_min = 0
        ELSE /\ \A i \in DOMAIN flags : ~flags[i]
             /\ pauses = <<Len(flags) * FrameMs>>

\* several frames of one energy above the floor, made of different samples
C8_Witness ==
    /\ Computed
    /\ Len(flags) >= 2
    /\ Cardinality(Range(Energies)) = 1
    /\ Energies[1] > Eps * Eps * frame_len(sr, FrameMs)
    /\ Cardinality(Range(y)) >= 2

\* C9: the pauses are, in clip order, the maximal runs of silence frames,
\* each once and 30 ms per frame, wherever the run lies in the clip; speech
\* runs give nothing.
C9_PausesAreSilenceRuns ==
    Computed =>
        /\ Len(pauses) = Cardinality(RunStarts(flags))
        /\ \A s \in RunStarts(flags) :
              pauses[Cardinality({t \in RunStarts(flags) : t <= s})]
                  = (RunEnd(flags, s) - s + 1) * FrameMs

\* a clip that starts and ends in silence, with speech inside
C9_Witness ==
    /\ Computed
    /\ Len(pauses) >= 2
    /\ ~flags[1]
    /\ ~flags[Len(flags)]

\* C10: when the median frame energy exceeds the floor, at least half the
\* frames (rounded up) are speech and the pauses cover at most half the
\* frames (rounded down).
C10_SpeechMajority ==
    (Computed /\ Len(flags) >= 1
              /\ MedianAboveFloor(Energies, frame_len(sr, FrameMs))) =>
        /\ 2 * Cardinality(DOMAIN flags \ Silent(flags)) >= Len(flags)
        /\ SumSeq(pauses) <= (Len(flags) \div 2) * FrameMs

\* an odd number of frames, the median above the floor, silence among them
C10_Witness ==
    /\ Computed
    /\ Len(flags) >= 3
    /\ Len(flags) % 2 = 1
    /\ MedianAboveFloor(Energies, frame_len(sr, FrameMs))
    /\ 2 * Cardinality(Silent(flags)) = Len(flags) - 1

====
